---- MODULE Spec2Model ----
(***************************************************************************)
(* Model of the node-ranking mirror: store bootstrap and migration         *)
(* (db.rs), the record upsert engine and the sync worker (worker.rs), the  *)
(* cache-fronted read path (main.rs) and the presentation formatters       *)
(* (formatters.rs).                                                        *)
(*                                                                         *)
(* Text values are sequences of one-character strings, so that formatting  *)
(* and parsing are computed character by character.                        *)
(***************************************************************************)
EXTENDS Integers, Sequences, FiniteSets, TLC

(***************************************************************************)
(* Text helpers                                                            *)
(***************************************************************************)
DigitChars == <<"0", "1", "2", "3", "4", "5", "6", "7", "8", "9">>

DigitChar(d) == DigitChars[d + 1]

IsDigit(c) == \E d \in 0..9 : DigitChars[d + 1] = c

DigitVal(c) == CHOOSE d \in 0..9 : DigitChars[d + 1] = c

\* n >= 0 written in decimal with exactly w digits (leading zeros).
RECURSIVE PadDigits(_, _)
PadDigits(n, w) ==
    IF w = 0 THEN <<>> ELSE PadDigits(n \div 10, w - 1) \o <<DigitChar(n % 10)>>

\* n >= 0 written in decimal without leading zeros.
RECURSIVE DecDigits(_)
DecDigits(n) ==
    IF n < 10 THEN <<DigitChar(n)>> ELSE DecDigits(n \div 10) \o <<DigitChar(n % 10)>>

AllDigits(t) == \A i \in 1..Len(t) : IsDigit(t[i])

\* The number a text of digits denotes.
RECURSIVE NumVal(_)
NumVal(t) ==
    IF t = <<>> THEN 0 ELSE 10 * NumVal(SubSeq(t, 1, Len(t) - 1)) + DigitVal(t[Len(t)])

(***************************************************************************)
(* formatters.rs                                                           *)
(***************************************************************************)
SATS_PER_BTC == 100000000

\* format!("{:.8}", sats as f64 / SATS_PER_BTC): sign, whole part, ".",
\* eight fraction digits.  (Exact for |sats| < 2^52, which covers the
\* integers TLC computes with.)
format_capacity(sats) ==
    LET mag == IF sats < 0 THEN 0 - sats ELSE sats
    IN  (IF sats < 0 THEN <<"-">> ELSE <<>>)
        \o DecDigits(mag \div SATS_PER_BTC)
        \o <<".">>
        \o PadDigits(mag % SATS_PER_BTC, 8)

SecondsPerDay == 86400

\* Proleptic Gregorian date of a day number counted from 1970-01-01.
CivilFromDays(days) ==
    LET z   == days + 719468
        era == z \div 146097
        doe == z - era * 146097
        yoe == (doe - doe \div 1460 + doe \div 36524 - doe \div 146096) \div 365
        doy == doe - (365 * yoe + yoe \div 4 - yoe \div 100)
        mp  == (5 * doy + 2) \div 153
        d   == doy - (153 * mp + 2) \div 5 + 1
        m   == IF mp < 10 THEN mp + 3 ELSE mp - 9
        y   == yoe + era * 400 + (IF m <= 2 THEN 1 ELSE 0)
    IN  [year |-> y, month |-> m, day |-> d]

\* Utc.timestamp_opt(ts, 0).single() then to_rfc3339_opts(Secs, true):
\* "YYYY-MM-DDTHH:MM:SSZ".  Every timestamp the model computes with lies in
\* chrono's representable range, so the "Invalid Timestamp" branch is the
\* guard below on the year.
format_timestamp(ts) ==
    LET days == ts \div SecondsPerDay
        secs == ts % SecondsPerDay
        c    == CivilFromDays(days)
    IN  IF c.year < 0 \/ c.year > 9999
        THEN <<"I", "n", "v", "a", "l", "i", "d", " ",
               "T", "i", "m", "e", "s", "t", "a", "m", "p">>
        ELSE PadDigits(c.year, 4) \o <<"-">> \o PadDigits(c.month, 2) \o <<"-">>
             \o PadDigits(c.day, 2) \o <<"T">>
             \o PadDigits(secs \div 3600, 2) \o <<":">>
             \o PadDigits((secs % 3600) \div 60, 2) \o <<":">>
             \o PadDigits(secs % 60, 2) \o <<"Z">>

(***************************************************************************)
(* db.rs: DateTime::parse_from_rfc3339(text).map(|dt| dt.timestamp())      *)
(***************************************************************************)
IsLeap(y) == (y % 4 = 0 /\ y % 100 # 0) \/ y % 400 = 0

DaysInMonth(y, m) ==
    IF m = 2 THEN (IF IsLeap(y) THEN 29 ELSE 28)
    ELSE IF m \in {4, 6, 9, 11} THEN 30 ELSE 31

\* Day number, counted from 1970-01-01, of a proleptic Gregorian date.
DaysFromCivil(year, m, d) ==
    LET y   == IF m <= 2 THEN year - 1 ELSE year
        era == y \div 400
        yoe == y - era * 400
        doy == (153 * (IF m > 2 THEN m - 3 ELSE m + 9) + 2) \div 5 + d - 1
        doe == yoe * 365 + yoe \div 4 - yoe \div 100 + doy
    IN  era * 146097 + doe - 719468

\* The text after the seconds field: an optional fraction, then the zone.
ZonePart(rest) ==
    IF rest # <<>> /\ rest[1] = "."
    THEN LET n == CHOOSE k \in 1..Len(rest) :
                     /\ \A i \in 2..k : IsDigit(rest[i])
                     /\ (k = Len(rest) \/ ~IsDigit(rest[k + 1]))
         IN  IF n < 2 THEN <<"?">> ELSE SubSeq(rest, n + 1, Len(rest))
    ELSE rest

\* Variant of ZoneOffset: the designator is checked but the local time is
\* taken as if it were UTC.
ZoneOffsetIgnored(z) ==
    [ok   |-> \/ z \in {<<"Z">>, <<"z">>}
              \/ /\ Len(z) = 6
                 /\ z[1] \in {"+", "-"}
                 /\ IsDigit(z[2]) /\ IsDigit(z[3]) /\ z[4] = ":"
                 /\ IsDigit(z[5]) /\ IsDigit(z[6]),
     secs |-> 0]

\* Offset of a zone designator in seconds east of UTC.
ZoneOffset(z) ==
    IF z \in {<<"Z">>, <<"z">>} THEN [ok |-> TRUE, secs |-> 0]
    ELSE IF /\ Len(z) = 6
            /\ z[1] \in {"+", "-"}
            /\ IsDigit(z[2]) /\ IsDigit(z[3]) /\ z[4] = ":"
            /\ IsDigit(z[5]) /\ IsDigit(z[6])
            /\ NumVal(SubSeq(z, 2, 3)) <= 23
            /\ NumVal(SubSeq(z, 5, 6)) <= 59
         THEN [ok   |-> TRUE,
               secs |-> (IF z[1] = "-" THEN -1 ELSE 1)
                        * (NumVal(SubSeq(z, 2, 3)) * 3600
                           + NumVal(SubSeq(z, 5, 6)) * 60)]
         ELSE [ok |-> FALSE, secs |-> 0]

\* [ok |-> TRUE, ts |-> epoch seconds] for a well-formed RFC3339 text,
\* [ok |-> FALSE] otherwise.
parse_from_rfc3339(t) ==
    IF /\ Len(t) >= 20
       /\ AllDigits(SubSeq(t, 1, 4)) /\ t[5] = "-"
       /\ AllDigits(SubSeq(t, 6, 7)) /\ t[8] = "-"
       /\ AllDigits(SubSeq(t, 9, 10)) /\ t[11] \in {"T", "t", " "}
       /\ AllDigits(SubSeq(t, 12, 13)) /\ t[14] = ":"
       /\ AllDigits(SubSeq(t, 15, 16)) /\ t[17] = ":"
       /\ AllDigits(SubSeq(t, 18, 19))
    THEN LET y   == NumVal(SubSeq(t, 1, 4))
             mo  == NumVal(SubSeq(t, 6, 7))
             d   == NumVal(SubSeq(t, 9, 10))
             h   == NumVal(SubSeq(t, 12, 13))
             mi  == NumVal(SubSeq(t, 15, 16))
             s   == NumVal(SubSeq(t, 18, 19))
             off == ZoneOffset(ZonePart(SubSeq(t, 20, Len(t))))
         IN  IF /\ mo \in 1..12
                /\ d >= 1 /\ d <= DaysInMonth(y, mo)
                /\ h <= 23 /\ mi <= 59 /\ s <= 59
                /\ off.ok
             THEN [ok |-> TRUE,
                   ts |-> DaysFromCivil(y, mo, d) * SecondsPerDay
                          + h * 3600 + mi * 60 + s - off.secs]
             ELSE [ok |-> FALSE, ts |-> 0]
    ELSE [ok |-> FALSE, ts |-> 0]

(***************************************************************************)
(* Data: node records, batches, tables                                     *)
(***************************************************************************)
PublicKeys == {"pk1", "pk2"}

\* worker.rs Node (the wire record) and a row of the current nodes table.
Node(pk, al, cap, fs) ==
    [public_key |-> pk, alias |-> al, capacity |-> cap, first_seen |-> fs]

\* A row of the legacy nodes table: surrogate id, textual first_seen.
OldNode(id, pk, al, cap, fs) ==
    [id |-> id, public_key |-> pk, alias |-> al, capacity |-> cap, first_seen |-> fs]

\* "2023-11-14T22:13:20Z"
TsUtc ==
    <<"2", "0", "2", "3", "-", "1", "1", "-", "1", "4", "T", "2", "2", ":",
      "1", "3", ":", "2", "0", "Z">>

\* "2023-11-14T23:13:20+01:00"
TsOffset ==
    <<"2", "0", "2", "3", "-", "1", "1", "-", "1", "4", "T", "2", "3", ":",
      "1", "3", ":", "2", "0", "+", "0", "1", ":", "0", "0">>

\* "1969-12-31T19:00:00-05:00"
TsWest ==
    <<"1", "9", "6", "9", "-", "1", "2", "-", "3", "1", "T", "1", "9", ":",
      "0", "0", ":", "0", "0", "-", "0", "5", ":", "0", "0">>

\* "1970-01-01T00:00:01.5Z"
TsFraction ==
    <<"1", "9", "7", "0", "-", "0", "1", "-", "0", "1", "T", "0", "0", ":",
      "0", "0", ":", "0", "1", ".", "5", "Z">>

\* "14/11/2023"
TsNoDate ==
    <<"1", "4", "/", "1", "1", "/", "2", "0", "2", "3">>

\* "2023-02-30T00:00:00Z"
TsBadDay ==
    <<"2", "0", "2", "3", "-", "0", "2", "-", "3", "0", "T", "0", "0", ":",
      "0", "0", ":", "0", "0", "Z">>


LegacyTexts == {TsUtc, TsOffset, TsWest, TsFraction, TsNoDate, TsBadDay}

\* A table of the store.  fs_type is the declared type of first_seen,
\* index says whether idx_capacity exists on it, rows is its set of rows.
NoTable == [exists |-> FALSE, fs_type |-> "", index |-> FALSE, rows |-> {}]

Table(type, idx, rows) ==
    [exists |-> TRUE, fs_type |-> type, index |-> idx, rows |-> rows]

KeysOf(rows) == {r.public_key : r \in rows}

(***************************************************************************)
(* SQL statements on the nodes table                                       *)
(***************************************************************************)
\* INSERT OR IGNORE INTO nodes ...: public_key is the primary key, a row
\* whose key is present is skipped.
InsertOrIgnore(rows, n) ==
    IF \E r \in rows : r.public_key = n.public_key
    THEN [rows |-> rows, changed |-> 0]
    ELSE [rows |-> rows \cup {n}, changed |-> 1]

\* Variant of UpdateChanged: the UPDATE without its "is anything different"
\* predicate, which rewrites and counts every row of the key.
UpdateEveryMatch(rows, n) ==
    LET hit == {r \in rows : r.public_key = n.public_key}
    IN  [rows    |-> (rows \ hit)
                     \cup {[r EXCEPT !.alias = n.alias, !.capacity = n.capacity] : r \in hit},
         changed |-> Cardinality(hit)]

\* Variant of UpdateChanged: the UPDATE without `public_key = ?1`, which
\* rewrites every row that differs from the record.
UpdateAnyKey(rows, n) ==
    LET hit == {r \in rows : r.alias # n.alias \/ r.capacity # n.capacity}
    IN  [rows    |-> (rows \ hit)
                     \cup {[r EXCEPT !.alias = n.alias, !.capacity = n.capacity] : r \in hit},
         changed |-> Cardinality(hit)]

\* Variant of UpdateChanged: the UPDATE also sets first_seen = ?4.
UpdateSetsFirstSeen(rows, n) ==
    LET hit == {r \in rows : /\ r.public_key = n.public_key
                             /\ (r.alias # n.alias \/ r.capacity # n.capacity)}
    IN  [rows    |-> (rows \ hit)
                     \cup {[r EXCEPT !.alias = n.alias, !.capacity = n.capacity,
                                     !.first_seen = n.first_seen] : r \in hit},
         changed |-> Cardinality(hit)]

\* UPDATE nodes SET alias = ?2, capacity = ?3
\*   WHERE public_key = ?1 AND (alias != ?2 OR capacity != ?3)
UpdateChanged(rows, n) ==
    LET hit == {r \in rows : /\ r.public_key = n.public_key
                             /\ (r.alias # n.alias \/ r.capacity # n.capacity)}
    IN  [rows    |-> (rows \ hit)
                     \cup {[r EXCEPT !.alias = n.alias, !.capacity = n.capacity] : r \in hit},
         changed |-> Cardinality(hit)]

\* Variant of Rollback: the statements ran in autocommit mode, what they
\* wrote before the failure stays.
NoRollback(committed, working) == working

\* Dropping an uncommitted rusqlite transaction rolls it back: the store
\* keeps its committed state.
Rollback(committed, working) == committed

(***************************************************************************)
(* worker.rs: store_nodes                                                  *)
(***************************************************************************)
\* The uncommitted state of the transaction after its first k statements:
\* statements 1..n are the inserts of the first loop, n+1..2n the updates
\* of the second loop, each in batch order.
RECURSIVE RunStatements(_, _, _)
RunStatements(rows, nodes, k) ==
    IF k = 0
    THEN [rows |-> rows, inserted_count |-> 0, updated_count |-> 0]
    ELSE LET prev == RunStatements(rows, nodes, k - 1)
             n    == Len(nodes)
         IN  IF k <= n
             THEN LET r == InsertOrIgnore(prev.rows, nodes[k])
                  IN  [rows           |-> r.rows,
                       inserted_count |-> prev.inserted_count + r.changed,
                       updated_count  |-> prev.updated_count]
             ELSE LET r == UpdateChanged(prev.rows, nodes[k - n])
                  IN  [rows           |-> r.rows,
                       inserted_count |-> prev.inserted_count,
                       updated_count  |-> prev.updated_count + r.changed]

\* The statement numbers at which a call on this batch can fail: an insert,
\* an update, or the commit (2n + 1).  A failure to open the store, to
\* begin the transaction or to prepare a statement has the effect of a
\* failure of the statement that would have run next.
FailPoints(nodes) == 1..(2 * Len(nodes) + 1)

\* Variant of store_nodes: a reconcile that mirrors the batch, deleting the
\* rows whose key the batch does not carry.
store_nodes_mirroring(rows, nodes, failAt) ==
    LET done == RunStatements(rows, nodes, 2 * Len(nodes))
        keys == {nodes[i].public_key : i \in 1..Len(nodes)}
    IN  IF failAt = 0
        THEN [ok |-> TRUE, rows |-> {r \in done.rows : r.public_key \in keys},
              inserted_count |-> done.inserted_count,
              updated_count  |-> done.updated_count]
        ELSE [ok |-> FALSE, rows |-> rows, inserted_count |-> 0, updated_count |-> 0]

\* store_nodes(nodes) on a store whose nodes table holds `rows`; failAt = 0
\* when every statement succeeds.  ok: Ok((inserted_count, updated_count))
\* or Err; rows: the committed rows after the call.
store_nodes(rows, nodes, failAt) ==
    LET done == RunStatements(rows, nodes,
                              IF failAt = 0 THEN 2 * Len(nodes) ELSE failAt - 1)
    IN  IF failAt = 0
        THEN [ok |-> TRUE, rows |-> done.rows,
              inserted_count |-> done.inserted_count,
              updated_count  |-> done.updated_count]
        ELSE [ok |-> FALSE, rows |-> Rollback(rows, done.rows),
              inserted_count |-> 0, updated_count |-> 0]

(***************************************************************************)
(* main.rs: the store scan of get_nodes                                    *)
(***************************************************************************)
\* Variant of ScanOrders: ORDER BY capacity, ascending.
RECURSIVE ScanOrdersAscending(_)
ScanOrdersAscending(rows) ==
    IF rows = {} THEN {<<>>}
    ELSE UNION {{<<r>> \o s : s \in ScanOrdersAscending(rows \ {r})} :
                r \in {x \in rows : \A y \in rows : y.capacity >= x.capacity}}

\* SELECT ... FROM nodes ORDER BY capacity DESC: every order of the rows in
\* which capacity never increases (rows of equal capacity come in any
\* order).
RECURSIVE ScanOrders(_)
ScanOrders(rows) ==
    IF rows = {} THEN {<<>>}
    ELSE UNION {{<<r>> \o s : s \in ScanOrders(rows \ {r})} :
                r \in {x \in rows : \A y \in rows : y.capacity <= x.capacity}}

\* models.rs NodeResponse built from a NodeFromDb (main.rs 49-54).
NodeResponse(row) ==
    [public_key |-> row.public_key,
     alias      |-> row.alias,
     capacity   |-> format_capacity(row.capacity),
     first_seen |-> format_timestamp(row.first_seen)]

\* The Vec<NodeResponse> a scan in the given row order produces.
Present(scan) == [i \in 1..Len(scan) |-> NodeResponse(scan[i])]

(***************************************************************************)
(* db.rs helpers                                                           *)
(***************************************************************************)
\* The spellings col_type.eq_ignore_ascii_case("TEXT") accepts, among the
\* declared types the model uses.
TextSpellings == {"TEXT", "text", "Text"}

\* needs_migration: the nodes table has a first_seen column declared TEXT.
\* (fs_type = "" stands for a table without a first_seen column.)
needs_migration(tbl) == tbl.fs_type \in TextSpellings

\* The rows of a legacy table in rowid order (the surrogate id is the rowid).
RECURSIVE RowidOrder(_)
RowidOrder(rows) ==
    IF rows = {} THEN <<>>
    ELSE LET first == CHOOSE r \in rows : \A q \in rows : r.id <= q.id
         IN  <<first>> \o RowidOrder(rows \ {first})

\* first_seen_ts of db.rs 72-77: the epoch seconds of the text, 0 when it
\* does not parse.
first_seen_ts(text) ==
    LET p == parse_from_rfc3339(text) IN IF p.ok THEN p.ts ELSE 0

\* The row run_migration inserts for a legacy row (db.rs 79-82).
MigratedRow(old) ==
    Node(old.public_key, old.alias, old.capacity, first_seen_ts(old.first_seen))

NoTx == [active |-> FALSE, nodes |-> NoTable, temp |-> NoTable]

(***************************************************************************)
(* State                                                                   *)
(***************************************************************************)
VARIABLES
    db,        \* the store on disk (committed): [nodes, temp], two tables
    orig,      \* the store as the process found it (never changes)
    rc,        \* two store_nodes calls in a row on one batch, and results
    wtx,       \* the worker's store_nodes call, statement by statement: its
               \* batch, statements executed, uncommitted rows, outcome
    clk,       \* time, in seconds: now, the interval's next deadline, when
               \* the last cycles started
    tx,        \* the uncommitted state of the migration transaction
    migQueue,  \* legacy rows the copy loop has still to visit
    mpc,       \* where main() is
    boot,      \* initialize_database: calls made, result, failing step
    workerStarted, \* spawn_worker has been called
    wpc,       \* where the worker task is: "tick", "fetch" or "sleep"; "store"
               \* while store_nodes is followed statement by statement
    attempts,  \* the worker's attempts counter
    backoff,   \* the worker's backoff, in seconds
    cyc,       \* history of the current sync cycle: fetch attempts made,
               \* kinds of failure met, backoff waits started, success
    hist,      \* history of the store: the successive committed row sets
               \* of the nodes table since the worker was spawned
    rd,        \* per HTTP request slot: where get_nodes is, its response;
               \* which store version it scanned, and whether the worker's
               \* transaction held uncommitted changes at that moment
    cache      \* the moka cache: its one entry and the entry's age; which
               \* store version the entry lists, and whether the request
               \* that wrote it raced with another

bootVars == <<db, orig, rc, wtx, clk, tx, migQueue, mpc, boot>>

workerVars == <<wpc, attempts, backoff, cyc>>

vars == <<db, orig, rc, wtx, clk, tx, migQueue, mpc, boot, workerStarted, wpc, attempts,
          backoff, cyc, hist, rd, cache>>

FreshStore == [nodes |-> NoTable, temp |-> NoTable]

CurrentStore ==
    [nodes |-> Table("INTEGER", TRUE, {Node("pk1", "a", 2, 0)}), temp |-> NoTable]

LegacyStore ==
    [nodes |-> Table("TEXT", TRUE, {OldNode(1, "pk1", "a", 150000000, TsUtc),
                                    OldNode(2, "pk2", "b", 1, TsNoDate)}),
     temp  |-> NoTable]

InitStores == {FreshStore, CurrentStore, LegacyStore}

\* Model bounds.
MaxVersions == 2
CacheTtl == 1

\* worker.rs 73 and 74.
max_attempts == 3
BackoffBase == 1

\* The request slots: two requests can be in flight at once, the fewest
\* that race.
Readers == {"r1", "r2"}

\* The arrays the remote source answers with.
BatchA == <<Node("pk1", "a", 150000000, 1700000000), Node("pk2", "b", 1, 0)>>
BatchB == <<Node("pk2", "a", 2, 1700000000)>>
Batches == {<<>>, BatchA, BatchB}

NoCycle == [fetches |-> 0, kinds |-> {}, sleeps |-> <<>>, ok |-> FALSE]

NoEntry == [present |-> FALSE, value |-> <<>>, ver |-> 0, age |-> 0, raced |-> FALSE]

IdleReader ==
    [pc |-> "idle", status |-> 0, body |-> <<>>, ver |-> 0, touched |-> FALSE,
     lookupVer |-> 0, lookupState |-> "", midTx |-> FALSE, raced |-> FALSE]

NoCall == [phase |-> 0, rows |-> {}, nodes |-> <<>>]

\* No store_nodes call in progress or made yet.
NoStoreCall ==
    [active |-> FALSE, nodes |-> <<>>, k |-> 0, rows |-> {}, before |-> {},
     result |-> "none"]

\* tokio::time::interval(period): the first tick is due at once.
NewInterval == [now |-> 0, deadline |-> 0, starts |-> <<>>, wakeAt |-> 0]

InitProcess ==
    /\ orig = db
    /\ wtx = NoStoreCall
    /\ clk = NewInterval
    /\ workerStarted = FALSE
    /\ wpc = "tick"
    /\ attempts = 0
    /\ backoff = BackoffBase
    /\ cyc = NoCycle
    /\ hist = <<>>
    /\ rd = [r \in Readers |-> IdleReader]
    /\ cache = NoEntry
    /\ tx = NoTx
    /\ migQueue = <<>>
    /\ mpc = "setup_env"
    /\ boot = [calls |-> 0, result |-> "none", failedAt |-> "", copied |-> 0]

Init ==
    /\ db \in InitStores
    /\ rc = NoCall
    /\ InitProcess

(***************************************************************************)
(* main.rs: main, up to the call of initialize_database                    *)
(***************************************************************************)
\* env_setup::setup_env()? succeeds (main.rs 84-90): main goes on to call
\* initialize_database.
MainSetupEnv ==
    /\ mpc = "setup_env"
    /\ mpc' = "db_open"
    /\ boot' = [boot EXCEPT !.calls = @ + 1]
    /\ UNCHANGED <<db, orig, rc, wtx, clk, tx, migQueue>>
    /\ UNCHANGED <<workerStarted, wpc, attempts, backoff, cyc, hist, rd, cache>>

\* setup_env()? fails: main returns the error before anything else.
MainSetupEnvFails ==
    /\ mpc = "setup_env"
    /\ mpc' = "exited"
    /\ UNCHANGED <<db, orig, rc, wtx, clk, tx, migQueue, boot>>
    /\ UNCHANGED <<workerStarted, wpc, attempts, backoff, cyc, hist, rd, cache>>

(***************************************************************************)
(* db.rs: initialize_database and run_migration, statement by statement    *)
(***************************************************************************)
\* Connection::open_with_flags (db.rs 102-105).
DbOpen ==
    /\ mpc = "db_open"
    /\ mpc' = "db_table_exists"
    /\ UNCHANGED <<db, orig, rc, wtx, clk, tx, migQueue, boot>>
    /\ UNCHANGED <<workerStarted, wpc, attempts, backoff, cyc, hist, rd, cache>>

\* The sqlite_master query and the branch on it (db.rs 108-114, 127).
DbTableExists ==
    /\ mpc = "db_table_exists"
    /\ mpc' = IF db.nodes.exists THEN "db_needs_migration" ELSE "db_create_table"
    /\ UNCHANGED <<db, orig, rc, wtx, clk, tx, migQueue, boot>>
    /\ UNCHANGED <<workerStarted, wpc, attempts, backoff, cyc, hist, rd, cache>>

\* CREATE TABLE nodes, in autocommit mode (db.rs 116-124).
DbCreateTable ==
    /\ mpc = "db_create_table"
    /\ db' = [db EXCEPT !.nodes = Table("INTEGER", FALSE, {})]
    /\ mpc' = "db_create_index"
    /\ UNCHANGED <<orig, rc, wtx, clk, tx, migQueue, boot>>
    /\ UNCHANGED <<workerStarted, wpc, attempts, backoff, cyc, hist, rd, cache>>

\* CREATE INDEX IF NOT EXISTS idx_capacity (db.rs 126), then Ok(()).
DbCreateIndex ==
    /\ mpc = "db_create_index"
    /\ db' = [db EXCEPT !.nodes.index = TRUE]
    /\ mpc' = "db_ready"
    /\ boot' = [boot EXCEPT !.result = "ok"]
    /\ UNCHANGED <<orig, rc, wtx, clk, tx, migQueue>>
    /\ UNCHANGED <<workerStarted, wpc, attempts, backoff, cyc, hist, rd, cache>>

\* needs_migration(&conn)? (db.rs 129): run the migration, or Ok(()).
DbNeedsMigration ==
    /\ mpc = "db_needs_migration"
    /\ IF needs_migration(db.nodes)
       THEN mpc' = "mig_begin" /\ boot' = boot
       ELSE mpc' = "db_ready" /\ boot' = [boot EXCEPT !.result = "ok"]
    /\ UNCHANGED <<db, orig, rc, wtx, clk, tx, migQueue>>
    /\ UNCHANGED <<workerStarted, wpc, attempts, backoff, cyc, hist, rd, cache>>

\* conn.transaction() (db.rs 32).
MigBegin ==
    /\ mpc = "mig_begin"
    /\ tx' = [active |-> TRUE, nodes |-> db.nodes, temp |-> db.temp]
    /\ mpc' = "mig_rename"
    /\ UNCHANGED <<db, orig, rc, wtx, clk, migQueue, boot>>
    /\ UNCHANGED <<workerStarted, wpc, attempts, backoff, cyc, hist, rd, cache>>

\* ALTER TABLE nodes RENAME TO nodes_old_migration_temp (db.rs 35); the
\* table's indexes follow it.
MigRename ==
    /\ mpc = "mig_rename"
    /\ ~tx.temp.exists
    /\ tx' = [tx EXCEPT !.temp = tx.nodes, !.nodes = NoTable]
    /\ mpc' = "mig_create"
    /\ UNCHANGED <<db, orig, rc, wtx, clk, migQueue, boot>>
    /\ UNCHANGED <<workerStarted, wpc, attempts, backoff, cyc, hist, rd, cache>>

\* CREATE TABLE nodes with the current schema (db.rs 38-46).
MigCreate ==
    /\ mpc = "mig_create"
    /\ tx' = [tx EXCEPT !.nodes = Table("INTEGER", FALSE, {})]
    /\ mpc' = "mig_select"
    /\ UNCHANGED <<db, orig, rc, wtx, clk, migQueue, boot>>
    /\ UNCHANGED <<workerStarted, wpc, attempts, backoff, cyc, hist, rd, cache>>

\* The SELECT over the renamed table (db.rs 58-66).
MigSelect ==
    /\ mpc = "mig_select"
    /\ migQueue' = RowidOrder(tx.temp.rows)
    /\ mpc' = "mig_copy"
    /\ UNCHANGED <<db, orig, rc, wtx, clk, tx, boot>>
    /\ UNCHANGED <<workerStarted, wpc, attempts, backoff, cyc, hist, rd, cache>>

\* One turn of the copy loop (db.rs 68-83).
MigCopyRow ==
    /\ mpc = "mig_copy"
    /\ migQueue # <<>>
    /\ tx' = [tx EXCEPT !.nodes.rows =
                 InsertOrIgnore(tx.nodes.rows, MigratedRow(Head(migQueue))).rows]
    /\ migQueue' = Tail(migQueue)
    /\ UNCHANGED <<db, orig, rc, wtx, clk, mpc, boot>>
    /\ UNCHANGED <<workerStarted, wpc, attempts, backoff, cyc, hist, rd, cache>>

\* DROP TABLE nodes_old_migration_temp (db.rs 87), after the loop.
MigDrop ==
    /\ mpc = "mig_copy"
    /\ migQueue = <<>>
    /\ tx' = [tx EXCEPT !.temp = NoTable]
    /\ mpc' = "mig_commit"
    /\ UNCHANGED <<db, orig, rc, wtx, clk, migQueue, boot>>
    /\ UNCHANGED <<workerStarted, wpc, attempts, backoff, cyc, hist, rd, cache>>

\* tx.commit() (db.rs 90), then Ok(()) up to initialize_database's caller.
MigCommit ==
    /\ mpc = "mig_commit"
    /\ db' = [nodes |-> tx.nodes, temp |-> tx.temp]
    /\ tx' = NoTx
    /\ mpc' = "db_ready"
    /\ boot' = [boot EXCEPT !.result = "ok"]
    /\ UNCHANGED <<orig, rc, wtx, clk, migQueue>>
    /\ UNCHANGED <<workerStarted, wpc, attempts, backoff, cyc, hist, rd, cache>>

DbSteps ==
    {"db_open", "db_table_exists", "db_create_table", "db_create_index",
     "db_needs_migration", "mig_begin", "mig_rename", "mig_create",
     "mig_select", "mig_copy", "mig_commit"}

\* The statement main is at fails: `?` returns the error out of
\* run_migration and initialize_database; an open transaction is dropped,
\* which rolls it back.
DbFail ==
    /\ mpc \in DbSteps
    /\ db' = [nodes |-> Rollback(db.nodes, tx.nodes),
              temp  |-> Rollback(db.temp, tx.temp)]
    /\ tx' = NoTx
    /\ migQueue' = <<>>
    /\ boot' = [boot EXCEPT !.result = "err", !.failedAt = mpc,
                          !.copied = Cardinality(tx.nodes.rows)]
    /\ mpc' = "db_failed"
    /\ UNCHANGED <<orig, rc, wtx, clk>>
    /\ UNCHANGED <<workerStarted, wpc, attempts, backoff, cyc, hist, rd, cache>>

\* Variant of MainInitFailed: the error is logged and main goes on.
MainInitFailureIgnored ==
    /\ mpc = "db_failed"
    /\ mpc' = "db_ready"
    /\ UNCHANGED <<db, orig, rc, wtx, clk, tx, migQueue, boot>>
    /\ UNCHANGED <<workerStarted, wpc, attempts, backoff, cyc, hist, rd, cache>>

\* main.rs 90-93: initialize_database returned Err, main returns.
MainInitFailed ==
    /\ mpc = "db_failed"
    /\ mpc' = "exited"
    /\ UNCHANGED <<db, orig, rc, wtx, clk, tx, migQueue, boot>>
    /\ UNCHANGED <<workerStarted, wpc, attempts, backoff, cyc, hist, rd, cache>>

Bootstrap ==
    \/ MainSetupEnv
    \/ MainSetupEnvFails
    \/ DbOpen
    \/ DbTableExists
    \/ DbCreateTable
    \/ DbCreateIndex
    \/ DbNeedsMigration
    \/ MigBegin
    \/ MigRename
    \/ MigCreate
    \/ MigSelect
    \/ MigCopyRow
    \/ MigDrop
    \/ MigCommit
    \/ DbFail
    \/ MainInitFailed

(***************************************************************************)
(* main.rs: main, after initialize_database                                *)
(***************************************************************************)
\* worker::spawn_worker() (main.rs 97); the cache is built empty (103-105).
MainSpawnWorker ==
    /\ mpc = "db_ready"
    /\ workerStarted' = TRUE
    /\ hist' = <<db.nodes.rows>>
    /\ mpc' = "bind"
    /\ UNCHANGED <<db, orig, rc, wtx, clk, tx, migQueue, boot, workerVars, rd, cache>>

\* HttpServer::new(..).bind(..)?.run() (main.rs 109-116): requests are
\* served from here on.
MainServe ==
    /\ mpc = "bind"
    /\ mpc' = "serving"
    /\ UNCHANGED <<db, orig, rc, wtx, clk, tx, migQueue, boot, workerStarted, workerVars, hist, rd, cache>>

\* bind(..)? fails: main returns and the process, worker included, ends.
MainBindFails ==
    /\ mpc = "bind"
    /\ mpc' = "exited"
    /\ UNCHANGED <<db, orig, rc, wtx, clk, tx, migQueue, boot, workerStarted, workerVars, hist, rd, cache>>

(***************************************************************************)
(* worker.rs: the task spawn_worker spawns                                 *)
(***************************************************************************)
WorkerRuns == workerStarted /\ mpc # "exited"

\* A new committed state of the nodes table, recorded in the history.
Publish(rows) ==
    /\ rows # db.nodes.rows => Len(hist) < MaxVersions
    /\ db' = [db EXCEPT !.nodes.rows = rows]
    /\ hist' = IF rows = db.nodes.rows THEN hist ELSE Append(hist, rows)

\* interval.tick().await returns; attempts and backoff start afresh
\* (worker.rs 71-74).
WorkerTick ==
    /\ WorkerRuns
    /\ wpc = "tick"
    /\ wpc' = "fetch"
    /\ attempts' = 0
    /\ backoff' = BackoffBase
    /\ cyc' = NoCycle
    /\ UNCHANGED <<bootVars, workerStarted, hist, rd, cache>>

\* Variant of AttemptFailed: the give-up test written `>` instead of `>=`.
AttemptFailedOffByOne(kind) ==
    /\ attempts' = attempts + 1
    /\ backoff' = backoff
    /\ IF attempts + 1 > max_attempts
       THEN /\ wpc' = "tick"
            /\ cyc' = [cyc EXCEPT !.fetches = @ + 1, !.kinds = @ \cup {kind}]
       ELSE /\ wpc' = "sleep"
            /\ cyc' = [cyc EXCEPT !.fetches = @ + 1, !.kinds = @ \cup {kind},
                                  !.sleeps = Append(@, backoff)]

\* The Err arm shared in shape by the three failure branches: count the
\* attempt, give up at max_attempts, else start the backoff sleep.
AttemptFailed(kind) ==
    /\ attempts' = attempts + 1
    /\ backoff' = backoff
    /\ IF attempts + 1 >= max_attempts
       THEN /\ wpc' = "tick"
            /\ cyc' = [cyc EXCEPT !.fetches = @ + 1, !.kinds = @ \cup {kind}]
       ELSE /\ wpc' = "sleep"
            /\ cyc' = [cyc EXCEPT !.fetches = @ + 1, !.kinds = @ \cup {kind},
                                  !.sleeps = Append(@, backoff)]

\* send() fails or times out (worker.rs 112-121).
WorkerFetchFails ==
    /\ WorkerRuns
    /\ wpc = "fetch"
    /\ AttemptFailed("transport")
    /\ UNCHANGED <<bootVars, workerStarted, hist, rd, cache>>

\* resp.json() fails (worker.rs 101-110).
WorkerDecodeFails ==
    /\ WorkerRuns
    /\ wpc = "fetch"
    /\ AttemptFailed("decode")
    /\ UNCHANGED <<bootVars, workerStarted, hist, rd, cache>>

\* Variant of WorkerStoreFails: a store failure that retries after the
\* backoff without counting the attempt.
WorkerStoreFailsUncounted ==
    /\ WorkerRuns
    /\ wpc = "fetch"
    /\ \E nodes \in Batches : \E failAt \in FailPoints(nodes) :
          Publish(store_nodes(db.nodes.rows, nodes, failAt).rows)
    /\ wpc' = "sleep"
    /\ cyc' = [cyc EXCEPT !.fetches = @ + 1, !.kinds = @ \cup {"store"},
                          !.sleeps = Append(@, backoff)]
    /\ UNCHANGED <<orig, rc, wtx, clk, tx, migQueue, mpc, boot, workerStarted, attempts,
                   backoff, rd, cache>>

\* store_nodes returns Err (worker.rs 89-98).
WorkerStoreFails ==
    /\ WorkerRuns
    /\ wpc = "fetch"
    /\ \E nodes \in Batches : \E failAt \in FailPoints(nodes) :
          Publish(store_nodes(db.nodes.rows, nodes, failAt).rows)
    /\ AttemptFailed("store")
    /\ UNCHANGED <<orig, rc, wtx, clk, tx, migQueue, mpc, boot, workerStarted, rd, cache>>

\* Fetch, decode and store_nodes all succeed (worker.rs 78-88).
WorkerStoreOk ==
    /\ WorkerRuns
    /\ wpc = "fetch"
    /\ \E nodes \in Batches :
          Publish(store_nodes(db.nodes.rows, nodes, 0).rows)
    /\ wpc' = "tick"
    /\ cyc' = [cyc EXCEPT !.fetches = @ + 1, !.ok = TRUE]
    /\ UNCHANGED <<orig, rc, wtx, clk, tx, migQueue, mpc, boot, workerStarted, attempts, backoff, rd, cache>>

\* The backoff sleep ends; backoff doubles (worker.rs 96-97, 108-109,
\* 119-120).
WorkerWake ==
    /\ WorkerRuns
    /\ wpc = "sleep"
    /\ wpc' = "fetch"
    /\ backoff' = backoff * 2
    /\ UNCHANGED <<bootVars, workerStarted, attempts, cyc, hist, rd, cache>>

Worker ==
    \/ WorkerTick
    \/ WorkerFetchFails
    \/ WorkerDecodeFails
    \/ WorkerStoreFails
    \/ WorkerStoreOk
    \/ WorkerWake

(***************************************************************************)
(* main.rs: get_nodes and the cache                                        *)
(***************************************************************************)
\* Variant of cache_get: a cache built without time_to_live.
cache_get_without_ttl(c) ==
    IF c.present
    THEN [some |-> TRUE, value |-> c.value, ver |-> c.ver]
    ELSE [some |-> FALSE, value |-> <<>>, ver |-> 0]

\* cache.get(&cache_key) on a cache built with time_to_live(ttl): the entry
\* while it is younger than the TTL.
cache_get(c) ==
    IF c.present /\ c.age < CacheTtl
    THEN [some |-> TRUE, value |-> c.value, ver |-> c.ver]
    ELSE [some |-> FALSE, value |-> <<>>, ver |-> 0]

\* Variant of cache_insert: an entry already in the cache is kept and only
\* made new again.
cache_insert_keeps_entry(value, ver) ==
    IF cache.present
    THEN [cache EXCEPT !.age = 0]
    ELSE [present |-> TRUE, value |-> value, ver |-> ver, age |-> 0, raced |-> FALSE]

\* cache.insert(cache_key, nodes): the entry is replaced and is new.
cache_insert(value, ver) ==
    [present |-> TRUE, value |-> value, ver |-> ver, age |-> 0, raced |-> FALSE]

\* What the cache holds, by the entry's age alone.
EntryState(c) ==
    IF ~c.present THEN "absent" ELSE IF c.age >= CacheTtl THEN "expired" ELSE "live"

\* Variant of ReadHit: a hit that is answered from a fresh store scan
\* instead of the cached value.
ReadHitRescans(r) ==
    /\ mpc = "serving"
    /\ rd[r].pc = "idle"
    /\ EntryState(cache) = "live"
    /\ \E scan \in ScanOrders(db.nodes.rows) :
          rd' = [rd EXCEPT ![r] =
                    [pc |-> "idle", status |-> 200, body |-> Present(scan),
                     ver |-> Len(hist), touched |-> FALSE,
                     lookupVer |-> Len(hist), lookupState |-> EntryState(cache),
                     midTx |-> FALSE, raced |-> cache.raced]]
    /\ UNCHANGED <<bootVars, workerStarted, workerVars, hist, cache>>

\* A request arrives and the cache answers it (main.rs 25-28).
ReadHit(r) ==
    /\ mpc = "serving"
    /\ rd[r].pc = "idle"
    /\ cache_get(cache).some
    /\ rd' = [rd EXCEPT ![r] =
                 [pc |-> "idle", status |-> 200, body |-> cache_get(cache).value,
                  ver |-> cache_get(cache).ver, touched |-> FALSE,
                  lookupVer |-> Len(hist),
                  lookupState |-> EntryState(cache), midTx |-> FALSE,
                  raced |-> cache.raced]]
    /\ UNCHANGED <<bootVars, workerStarted, workerVars, hist, cache>>

\* The requests among rs that have missed the cache and not yet answered.
InFlight(rs) == {q \in rs : rd[q].pc \in {"scan", "insert"}}

\* A request arrives and misses the cache (main.rs 25, 29).  (raced: some
\* other request is, at some moment between this miss and its answer,
\* also between its miss and its answer.)
ReadMiss(r) ==
    /\ mpc = "serving"
    /\ rd[r].pc = "idle"
    /\ ~cache_get(cache).some
    /\ rd' = [q \in Readers |->
                 IF q = r
                 THEN [pc |-> "scan", status |-> 0, body |-> <<>>, ver |-> 0,
                       touched |-> FALSE, lookupVer |-> Len(hist),
                       lookupState |-> EntryState(cache), midTx |-> FALSE,
                       raced |-> InFlight(Readers \ {r}) # {}]
                 ELSE IF q \in InFlight(Readers)
                      THEN [rd[q] EXCEPT !.raced = TRUE]
                      ELSE rd[q]]
    /\ UNCHANGED <<bootVars, workerStarted, workerVars, hist, cache>>

\* The blocking closure runs its SELECT and formats the rows
\* (main.rs 33-57).
ReadScan(r) ==
    /\ mpc = "serving"
    /\ rd[r].pc = "scan"
    /\ \E scan \in ScanOrders(db.nodes.rows) :
          rd' = [rd EXCEPT ![r].pc = "insert", ![r].body = Present(scan),
                           ![r].ver = Len(hist), ![r].touched = TRUE,
                           ![r].midTx = (wtx.active /\ wtx.rows # wtx.before)]
    /\ UNCHANGED <<bootVars, workerStarted, workerVars, hist, cache>>

\* Variant of ReadScanFails: the failure is cached as an empty listing.
ReadScanFailsCachesEmpty(r) ==
    /\ mpc = "serving"
    /\ rd[r].pc = "scan"
    /\ rd' = [rd EXCEPT ![r].pc = "idle", ![r].status = 500, ![r].touched = TRUE]
    /\ cache' = cache_insert(<<>>, Len(hist))
    /\ UNCHANGED <<bootVars, workerStarted, workerVars, hist>>

\* The closure or the blocking task fails: 500, nothing cached
\* (main.rs 66-73).
ReadScanFails(r) ==
    /\ mpc = "serving"
    /\ rd[r].pc = "scan"
    /\ rd' = [rd EXCEPT ![r].pc = "idle", ![r].status = 500, ![r].touched = TRUE]
    /\ UNCHANGED <<bootVars, workerStarted, workerVars, hist, cache>>

\* The result is put in the cache and answered (main.rs 61-65).
ReadInsert(r) ==
    /\ mpc = "serving"
    /\ rd[r].pc = "insert"
    /\ cache' = [cache_insert(rd[r].body, rd[r].ver) EXCEPT !.raced = rd[r].raced]
    /\ rd' = [rd EXCEPT ![r].pc = "idle", ![r].status = 200]
    /\ UNCHANGED <<bootVars, workerStarted, workerVars, hist>>

\* One unit of time passes for the cache entry.
TimePasses ==
    /\ mpc = "serving"
    /\ cache.present
    /\ cache.age < CacheTtl
    /\ cache' = [cache EXCEPT !.age = @ + 1]
    /\ UNCHANGED <<bootVars, workerStarted, workerVars, hist, rd>>

ReadPath ==
    \/ \E r \in Readers : ReadHit(r)
    \/ \E r \in Readers : ReadMiss(r)
    \/ \E r \in Readers : ReadScan(r)
    \/ \E r \in Readers : ReadScanFails(r)
    \/ \E r \in Readers : ReadInsert(r)
    \/ TimePasses

Next ==
    \/ Bootstrap
    \/ MainSpawnWorker
    \/ MainServe
    \/ MainBindFails
    \/ Worker
    \/ ReadPath

Spec == Init /\ [][Next]_vars

(***************************************************************************)
(* Bootstrap alone, over a wider range of stores found on disk             *)
(***************************************************************************)
\* Model bound: the most rows a legacy table holds.
MaxLegacyRows == 2

\* The legacy tables of n rows, ids 1..n: any keys (the legacy table had a
\* surrogate id as its key), any of the texts.
LegacyRowSets(n) ==
    {{OldNode(i, f[i][1], "a", i, f[i][2]) : i \in 1..n} :
        f \in [1..n -> PublicKeys \X LegacyTexts]}

\* Declared types of first_seen that are neither the current schema's nor
\* the legacy one's; "" stands for a table without the column.
OtherTypes == {"REAL", ""}

MigrationStores ==
    {FreshStore, CurrentStore}
    \cup {[nodes |-> Table(type, idx, rows), temp |-> NoTable] :
            type \in {"TEXT", "text"}, idx \in BOOLEAN,
            rows \in UNION {LegacyRowSets(n) : n \in 0..MaxLegacyRows}}
    \cup {[nodes |-> Table(type, idx, {}), temp |-> NoTable] :
            type \in OtherTypes, idx \in BOOLEAN}

InitMigration ==
    /\ db \in MigrationStores
    /\ rc = NoCall
    /\ InitProcess

SpecMigration == InitMigration /\ [][Bootstrap]_vars

(***************************************************************************)
(* store_nodes alone: the same batch reconciled twice in a row             *)
(***************************************************************************)
\* Model bound: the most records a batch holds.
MaxBatch == 2

\* The records of a batch and the rows of a store before the calls.
BatchNodes ==
    {Node(pk, al, cap, 1700000000) : pk \in PublicKeys, al \in {"a", "b"}, cap \in {1, 2}}

StoredNodes ==
    {Node(pk, al, cap, 0) : pk \in PublicKeys, al \in {"a", "b"}, cap \in {1, 2}}

BatchesUpTo(n) == UNION {[1..k -> BatchNodes] : k \in 0..n}

\* The row sets a nodes table can hold: public_key is its primary key.
StoreStates ==
    {rows \in SUBSET StoredNodes :
        \A a, b \in rows : a.public_key = b.public_key => a = b}

InitReconcile ==
    /\ db = FreshStore
    /\ rc \in {[phase |-> 0, rows |-> rows, nodes |-> nodes] :
                 rows \in StoreStates, nodes \in BatchesUpTo(MaxBatch)}
    /\ InitProcess

\* The first call of store_nodes(nodes), any statement of which may fail.
ReconcileFirst ==
    /\ rc.phase = 0
    /\ \E failAt \in {0} \cup FailPoints(rc.nodes) :
          rc' = [phase |-> 1, rows |-> rc.rows, nodes |-> rc.nodes,
                 first |-> store_nodes(rc.rows, rc.nodes, failAt)]
    /\ UNCHANGED <<db, orig, wtx, clk, tx, migQueue, mpc, boot, workerStarted, workerVars,
                   hist, rd, cache>>

\* The second call, on the store the first call left.
ReconcileSecond ==
    /\ rc.phase = 1
    /\ \E failAt \in {0} \cup FailPoints(rc.nodes) :
          rc' = [phase |-> 2, rows |-> rc.rows, nodes |-> rc.nodes,
                 first |-> rc.first,
                 second |-> store_nodes(rc.first.rows, rc.nodes, failAt)]
    /\ UNCHANGED <<db, orig, wtx, clk, tx, migQueue, mpc, boot, workerStarted, workerVars,
                   hist, rd, cache>>

NextReconcile ==
    \/ ReconcileFirst
    \/ ReconcileSecond

SpecReconcile == InitReconcile /\ [][NextReconcile]_vars

(***************************************************************************)
(* store_nodes alone: one batch reconciled in two orders                   *)
(***************************************************************************)
\* The orders the records of a batch can come in.
BatchOrders(nodes) ==
    {[i \in 1..Len(nodes) |-> nodes[p[i]]] :
        p \in {q \in [1..Len(nodes) -> 1..Len(nodes)] :
                 \A i, j \in 1..Len(nodes) : q[i] = q[j] => i = j}}

InitBatch ==
    /\ db = FreshStore
    /\ rc \in {[phase |-> 0, rows |-> rows, nodes |-> nodes] :
                 rows \in StoreStates, nodes \in BatchesUpTo(MaxBatch)}
    /\ InitProcess

\* store_nodes(nodes) succeeds on the store; and, on the same store, so
\* does store_nodes of the same records in another order.
ReconcileBothOrders ==
    /\ rc.phase = 0
    /\ \E perm \in BatchOrders(rc.nodes) :
          rc' = [phase |-> 3, rows |-> rc.rows, nodes |-> rc.nodes, perm |-> perm,
                 inOrder  |-> store_nodes(rc.rows, rc.nodes, 0),
                 permuted |-> store_nodes(rc.rows, perm, 0)]
    /\ UNCHANGED <<db, orig, wtx, clk, tx, migQueue, mpc, boot, workerStarted, workerVars,
                   hist, rd, cache>>

SpecBatch == InitBatch /\ [][ReconcileBothOrders]_vars

(***************************************************************************)
(* store_nodes statement by statement, next to the requests being served   *)
(***************************************************************************)
\* Model bound: the committed states the nodes table goes through.
MaxCommitted == 3

\* The stores a successful bootstrap leaves.
ReadyStores ==
    {CurrentStore, [nodes |-> Table("INTEGER", TRUE, {}), temp |-> NoTable]}

\* The process as main.rs 97-116 leaves it: database ready, worker spawned,
\* server bound.
InitTransaction ==
    /\ db \in ReadyStores
    /\ rc = NoCall
    /\ orig = db
    /\ wtx = NoStoreCall
    /\ clk = NewInterval
    /\ workerStarted = TRUE
    /\ wpc = "tick"
    /\ attempts = 0
    /\ backoff = BackoffBase
    /\ cyc = NoCycle
    /\ hist = <<db.nodes.rows>>
    /\ rd = [r \in Readers |-> IdleReader]
    /\ cache = NoEntry
    /\ tx = NoTx
    /\ migQueue = <<>>
    /\ mpc = "serving"
    /\ boot = [calls |-> 1, result |-> "ok", failedAt |-> "", copied |-> 0]

\* The fetch and the decode succeeded; store_nodes opens the store and
\* begins its transaction (worker.rs 77-80, 26-32).
TxBegin ==
    /\ WorkerRuns
    /\ wpc = "fetch"
    /\ \E nodes \in Batches :
          wtx' = [active |-> TRUE, nodes |-> nodes, k |-> 0,
                  rows |-> db.nodes.rows, before |-> db.nodes.rows,
                  result |-> "none"]
    /\ wpc' = "store"
    /\ UNCHANGED <<db, orig, rc, clk, tx, migQueue, mpc, boot, workerStarted,
                   attempts, backoff, cyc, hist, rd, cache>>

\* Variant of TxStatement: the statement runs in autocommit mode, its
\* effect is on disk at once.
TxStatementAutocommit ==
    /\ WorkerRuns
    /\ wpc = "store"
    /\ wtx.active
    /\ wtx.k < 2 * Len(wtx.nodes)
    /\ wtx' = [wtx EXCEPT !.k = @ + 1,
                          !.rows = RunStatements(wtx.before, wtx.nodes, wtx.k + 1).rows]
    /\ db' = [db EXCEPT !.nodes.rows = RunStatements(wtx.before, wtx.nodes, wtx.k + 1).rows]
    /\ UNCHANGED <<orig, rc, clk, tx, migQueue, mpc, boot, workerStarted,
                   workerVars, hist, rd, cache>>

\* The next statement of the call executes inside the transaction: an
\* insert of the first loop or an update of the second (worker.rs 38-46,
\* 53-56).  What it writes is uncommitted.
TxStatement ==
    /\ WorkerRuns
    /\ wpc = "store"
    /\ wtx.active
    /\ wtx.k < 2 * Len(wtx.nodes)
    /\ wtx' = [wtx EXCEPT !.k = @ + 1,
                          !.rows = RunStatements(wtx.before, wtx.nodes, wtx.k + 1).rows]
    /\ UNCHANGED <<db, orig, rc, clk, tx, migQueue, mpc, boot, workerStarted,
                   workerVars, hist, rd, cache>>

\* tx.commit() succeeds and store_nodes returns Ok (worker.rs 59-60, 81-88).
TxCommit ==
    /\ WorkerRuns
    /\ wpc = "store"
    /\ wtx.active
    /\ wtx.k = 2 * Len(wtx.nodes)
    /\ wtx.rows # db.nodes.rows => Len(hist) < MaxCommitted
    /\ db' = [db EXCEPT !.nodes.rows = wtx.rows]
    /\ hist' = IF wtx.rows = db.nodes.rows THEN hist ELSE Append(hist, wtx.rows)
    /\ wtx' = [wtx EXCEPT !.active = FALSE, !.result = "ok"]
    /\ wpc' = "tick"
    /\ cyc' = [cyc EXCEPT !.fetches = @ + 1, !.ok = TRUE]
    /\ UNCHANGED <<orig, rc, clk, tx, migQueue, mpc, boot, workerStarted,
                   attempts, backoff, rd, cache>>

\* The statement the call is at fails (an insert, an update, or the commit
\* when all statements have run): `?` returns the error, the transaction
\* is dropped uncommitted, the worker counts a failed attempt
\* (worker.rs 29-59, 89-98).
TxFail ==
    /\ WorkerRuns
    /\ wpc = "store"
    /\ wtx.active
    /\ db' = [db EXCEPT !.nodes.rows = Rollback(db.nodes.rows, wtx.rows)]
    /\ wtx' = [wtx EXCEPT !.active = FALSE, !.result = "err"]
    /\ AttemptFailed("store")
    /\ UNCHANGED <<orig, rc, clk, tx, migQueue, mpc, boot, workerStarted,
                   hist, rd, cache>>

\* One request at a time is enough to meet the transaction half-way.
NextTransaction ==
    \/ WorkerTick
    \/ WorkerWake
    \/ TxBegin
    \/ TxStatement
    \/ TxCommit
    \/ TxFail
    \/ ReadHit("r1")
    \/ ReadMiss("r1")
    \/ ReadScan("r1")
    \/ ReadScanFails("r1")
    \/ ReadInsert("r1")
    \/ TimePasses

SpecTransaction == InitTransaction /\ [][NextTransaction]_vars

(***************************************************************************)
(* worker.rs: the worker against the clock                                 *)
(***************************************************************************)
\* FETCH_INTERVAL_SECONDS (worker.rs 64): the period the runs are made
\* with, in seconds.
TickPeriod == 2

\* Model bound: the seconds a run lasts.
MaxTime == 8

\* The start times of the last two cycles.
LastTwo(starts) ==
    IF Len(starts) <= 2 THEN starts ELSE <<starts[Len(starts) - 1], starts[Len(starts)]>>

\* interval.tick().await returns (worker.rs 71): at its deadline, or at
\* once when the deadline has passed.  The interval is built by
\* tokio::time::interval (worker.rs 69), so a missed tick leaves the
\* schedule as it was: the next deadline is the last deadline plus the
\* period.  A cycle starts (worker.rs 72-74).
TickReturns ==
    /\ WorkerRuns
    /\ wpc = "tick"
    /\ clk.now >= clk.deadline
    /\ wpc' = "fetch"
    /\ attempts' = 0
    /\ backoff' = BackoffBase
    /\ cyc' = NoCycle
    /\ clk' = [clk EXCEPT !.deadline = @ + TickPeriod,
                          !.starts = LastTwo(Append(@, clk.now))]
    /\ UNCHANGED <<db, orig, rc, wtx, tx, migQueue, mpc, boot, workerStarted,
                   hist, rd, cache>>

\* An attempt fails, in the request, the decoding or store_nodes; unless
\* the cycle gives up, tokio::time::sleep(backoff) starts
\* (worker.rs 89-121).
TimedAttemptFails ==
    /\ WorkerRuns
    /\ wpc = "fetch"
    /\ \E kind \in {"transport", "decode", "store"} : AttemptFailed(kind)
    /\ clk' = IF attempts + 1 >= max_attempts
              THEN clk
              ELSE [clk EXCEPT !.wakeAt = clk.now + backoff]
    /\ UNCHANGED <<db, orig, rc, wtx, tx, migQueue, mpc, boot, workerStarted,
                   hist, rd, cache>>

\* The attempt succeeds (worker.rs 77-88).
TimedStoreOk ==
    /\ WorkerRuns
    /\ wpc = "fetch"
    /\ \E nodes \in Batches :
          Publish(store_nodes(db.nodes.rows, nodes, 0).rows)
    /\ wpc' = "tick"
    /\ cyc' = [cyc EXCEPT !.fetches = @ + 1, !.ok = TRUE]
    /\ UNCHANGED <<orig, rc, wtx, clk, tx, migQueue, mpc, boot, workerStarted,
                   attempts, backoff, rd, cache>>

\* The sleep is over after `backoff` seconds; backoff doubles
\* (worker.rs 96-97, 108-109, 119-120).
TimedWake ==
    /\ WorkerRuns
    /\ wpc = "sleep"
    /\ clk.now >= clk.wakeAt
    /\ wpc' = "fetch"
    /\ backoff' = backoff * 2
    /\ UNCHANGED <<db, orig, rc, wtx, clk, tx, migQueue, mpc, boot, workerStarted,
                   attempts, cyc, hist, rd, cache>>

\* A second passes: while a request is in flight, while a sleep has time
\* left, or while the tick is not yet due.
Tock ==
    /\ clk.now < MaxTime
    /\ ~(wpc = "tick" /\ clk.now >= clk.deadline)
    /\ ~(wpc = "sleep" /\ clk.now >= clk.wakeAt)
    /\ clk' = [clk EXCEPT !.now = @ + 1]
    /\ UNCHANGED <<db, orig, rc, wtx, tx, migQueue, mpc, boot, workerStarted,
                   workerVars, hist, rd, cache>>

NextTick ==
    \/ TickReturns
    \/ TimedAttemptFails
    \/ TimedStoreOk
    \/ TimedWake
    \/ Tock

SpecTick == InitTransaction /\ [][NextTick]_vars

(***************************************************************************)
(* Properties                                                              *)
(***************************************************************************)
DistinctKeys(nodes) ==
    \A i, j \in 1..Len(nodes) : nodes[i].public_key = nodes[j].public_key => i = j

UniqueKeys(rows) == \A a, b \in rows : a.public_key = b.public_key => a = b

\* C1: reconciling a batch of pairwise distinct public keys twice in a row,
\* the second call returns (inserted_count, updated_count) = (0, 0) and
\* leaves the store exactly as the first call left it.
C1_SecondReconcileChangesNothing ==
    (rc.phase = 2 /\ rc.first.ok /\ rc.second.ok /\ DistinctKeys(rc.nodes))
        => /\ rc.second.inserted_count = 0
           /\ rc.second.updated_count = 0
           /\ rc.second.rows = rc.first.rows

\* A batch of two distinct keys whose first call inserted one row and
\* updated the other, and whose second call then returned (0, 0).
C1_Witness ==
    /\ rc.phase = 2 /\ rc.first.ok /\ rc.second.ok
    /\ Len(rc.nodes) = 2 /\ DistinctKeys(rc.nodes)
    /\ rc.first.inserted_count = 1 /\ rc.first.updated_count = 1
    /\ rc.first.rows # rc.rows
    /\ rc.second.inserted_count = 0 /\ rc.second.updated_count = 0

\* C2: once the worker runs, whatever the sync cycles (successful, failed,
\* retried) and the reads do, no step removes a public key from the nodes
\* table, and the table always holds exactly one row per public key.
C2_RecordsNeverDeleted ==
    /\ [][workerStarted => KeysOf(db.nodes.rows) \subseteq KeysOf(db'.nodes.rows)]_vars
    /\ [](workerStarted => UniqueKeys(db.nodes.rows))

\* A cycle committed a batch that carries pk2 only into a store that held
\* pk1: the pk1 row is still there, next to the new pk2 row.
C2_Witness ==
    /\ Len(hist) = 2
    /\ "pk1" \in KeysOf(hist[1])
    /\ "pk2" \notin KeysOf(hist[1])
    /\ db.nodes.rows = hist[1] \cup {BatchB[1]}
    /\ \E r \in Readers : rd[r].status = 200

\* C3: a cycle in which every attempt failed in transport makes exactly
\* max_attempts fetch attempts, waits 1 then 2 between them (each wait the
\* double of the one before), and is back at the tick wait afterwards; a
\* cycle starts with attempts 0 and backoff 1; the worker always has a next
\* step.
C3_TransportRetriesThenTick ==
    /\ (cyc.kinds = {"transport"} /\ ~cyc.ok) =>
          /\ cyc.fetches <= max_attempts
          /\ cyc.sleeps = [i \in 1..Len(cyc.sleeps) |-> BackoffBase * 2 ^ (i - 1)]
          /\ (wpc = "tick" => cyc.fetches = max_attempts /\ Len(cyc.sleeps) = max_attempts - 1)
          /\ (wpc = "fetch" => Len(cyc.sleeps) = cyc.fetches)
          /\ (wpc = "sleep" => Len(cyc.sleeps) = cyc.fetches)
    /\ (wpc = "fetch" /\ cyc.fetches = 0) => (attempts = 0 /\ backoff = BackoffBase)
    /\ wpc \in {"tick", "fetch", "sleep"}
    /\ WorkerRuns => ENABLED Worker

\* The worker is back at the tick wait after three transport failures and
\* the waits 1 and 2.
C3_Witness ==
    /\ wpc = "tick"
    /\ cyc = [fetches |-> 3, kinds |-> {"transport"}, sleeps |-> <<1, 2>>, ok |-> FALSE]

\* C10: whatever the mix and order of transport, decode and store failures,
\* a cycle makes at most max_attempts fetch attempts; a cycle that ended
\* without success made exactly max_attempts, and the worker is then at the
\* tick wait, able to start the next cycle.
C10_OneSharedRetryCounter ==
    /\ cyc.fetches <= max_attempts
    /\ ~cyc.ok => cyc.fetches = attempts
    /\ (wpc = "tick" /\ cyc.fetches > 0 /\ ~cyc.ok) =>
          (cyc.fetches = max_attempts /\ (WorkerRuns => ENABLED WorkerTick))

\* A cycle that met one failure of each kind and gave up.
C10_Witness ==
    /\ wpc = "tick"
    /\ ~cyc.ok
    /\ cyc.fetches = 3
    /\ cyc.kinds = {"transport", "decode", "store"}

\* body lists the rows of a snapshot: one presentation record per row, in
\* an order in which the rows' integer capacity never increases.
IsRankedListing(body, rows) ==
    /\ Len(body) = Cardinality(rows)
    /\ \E f \in [1..Len(body) -> rows] :
          /\ \A i, j \in 1..Len(body) : f[i] = f[j] => i = j
          /\ \A i \in 1..Len(body) : body[i] = NodeResponse(f[i])
          /\ \A i \in 1..(Len(body) - 1) : f[i].capacity >= f[i + 1].capacity

\* Request r is answered 200 in this step.
Answered200(r) ==
    /\ rd'[r] # rd[r]
    /\ rd'[r].pc = "idle"
    /\ rd'[r].status = 200

\* C4, as stated: every read answered while a cache entry is within its
\* TTL returns that entry's sequence.
C4_AllReadsInWindowIdentical ==
    [][\A r \in Readers :
          (Answered200(r) /\ EntryState(cache) = "live") => rd'[r].body = cache.value]_vars

\* C4, amended: a read that hits the cache returns the sequence of the
\* entry then in the cache, unchanged, without touching the store or the
\* cache, whatever the worker has committed; a read answered otherwise is a
\* read that missed the cache and now completes; and the cached sequence
\* changes only by such a completion.
C4_HitsReturnCachedSequence ==
    /\ [][\A r \in Readers :
             Answered200(r) =>
                IF rd'[r].touched
                THEN rd[r].pc = "insert"
                ELSE /\ EntryState(cache) = "live"
                     /\ rd'[r].body = cache.value
                     /\ cache' = cache
                     /\ db' = db]_vars
    /\ [][cache'.value # cache.value =>
             \E r \in Readers : rd[r].pc = "insert" /\ cache'.value = rd[r].body]_vars

\* A hit that returned the cached snapshot of the first store state after
\* the worker had committed the second.
C4_Witness ==
    \E r \in Readers :
        /\ rd[r].pc = "idle" /\ rd[r].status = 200 /\ ~rd[r].touched
        /\ rd[r].ver = 1 /\ rd[r].lookupVer = 2
        /\ rd[r].body = cache.value
        /\ ~IsRankedListing(rd[r].body, db.nodes.rows)

\* C5: a read that found the cache entry expired returns (and caches) the
\* listing of a store state that was the committed one at some moment of
\* that read: no older than the state at its cache lookup, under every
\* interleaving of other reads and worker commits.
C5_ReadAfterTtlReflectsStore ==
    \A r \in Readers :
        (rd[r].lookupState = "expired" /\ (rd[r].pc = "insert" \/ rd[r].status = 200))
            => /\ rd[r].lookupVer <= rd[r].ver
               /\ rd[r].ver <= Len(hist)
               /\ IsRankedListing(rd[r].body, hist[rd[r].ver])

\* A read that found the entry expired and returned the second store state,
\* while the other slot still shows the first store state it was served.
C5_Witness ==
    \E r, q \in Readers :
        /\ rd[r].pc = "idle" /\ rd[r].status = 200
        /\ rd[r].lookupState = "expired"
        /\ rd[r].ver = 2
        /\ rd[q].status = 200 /\ rd[q].ver = 1
        /\ rd[q].body # rd[r].body

\* C8: initialize_database is called at most once; the worker runs a
\* cycle, the server binds or a request is handled only after that one call
\* has returned Ok; after it returned Err the worker is never started and
\* no request is handled.
C8_BootstrapBeforeWorkerAndServer ==
    /\ boot.calls <= 1
    /\ (\/ workerStarted
        \/ wpc # "tick"
        \/ cyc # NoCycle
        \/ mpc \in {"bind", "serving"}
        \/ cache.present
        \/ \E r \in Readers : rd[r] # IdleReader)
          => (boot.calls = 1 /\ boot.result = "ok" /\ ~tx.active)
    /\ boot.result = "err" =>
          /\ ~workerStarted
          /\ mpc \in {"db_failed", "exited"}
          /\ wpc = "tick" /\ cyc = NoCycle
          /\ \A r \in Readers : rd[r] = IdleReader

\* The process migrated a legacy store, then the worker completed a cycle
\* and a request was answered.
C8_Witness ==
    /\ needs_migration(orig.nodes)
    /\ boot = [calls |-> 1, result |-> "ok", failedAt |-> "", copied |-> 0]
    /\ mpc = "serving"
    /\ cyc.ok
    /\ \E r \in Readers : rd[r].status = 200

\* C9: every 200 response, and the cached sequence hits are served from,
\* lists the rows of the store snapshot it was computed from: one
\* presentation record per row, in non-increasing order of the rows' integer
\* capacity.
C9_ResponsesRankedByCapacity ==
    /\ \A r \in Readers :
          rd[r].status = 200 =>
             /\ rd[r].ver \in 1..Len(hist)
             /\ IsRankedListing(rd[r].body, hist[rd[r].ver])
    /\ cache.present =>
          /\ cache.ver \in 1..Len(hist)
          /\ IsRankedListing(cache.value, hist[cache.ver])

\* A response served from the cache that lists two rows, capacity
\* 150000000 before capacity 1.
C9_Witness ==
    \E r \in Readers :
        /\ rd[r].status = 200 /\ ~rd[r].touched
        /\ Len(rd[r].body) = 2
        /\ rd[r].body[1].capacity = <<"1", ".", "5", "0", "0", "0", "0", "0", "0", "0">>
        /\ rd[r].body[2].capacity = <<"0", ".", "0", "0", "0", "0", "0", "0", "0", "1">>

\* What the legacy texts of the model denote: the epoch seconds of those
\* that are RFC3339 date-times, and which are not.
LegacyParses(text) == text \in {TsUtc, TsOffset, TsWest, TsFraction}

LegacyEpoch(text) ==
    CASE text = TsUtc      -> 1700000000
      [] text = TsOffset   -> 1700000000
      [] text = TsWest     -> 0
      [] text = TsFraction -> 1
      [] OTHER             -> 0

\* The row a legacy row is to become.
Converted(old) ==
    Node(old.public_key, old.alias, old.capacity,
         IF LegacyParses(old.first_seen) THEN LegacyEpoch(old.first_seen) ELSE 0)

Migrated == boot.result = "ok" /\ needs_migration(orig.nodes)

\* C6, as stated: a successful migration yields a nodes table (integer
\* first_seen, no temporary table left) with as many rows as the legacy
\* table, holding for every legacy row its public_key, alias and capacity
\* with first_seen converted to its epoch seconds, or 0 when it does not
\* parse.
C6_MigrationKeepsEveryRow ==
    Migrated =>
        /\ db.nodes.exists /\ db.nodes.fs_type = "INTEGER" /\ ~db.temp.exists
        /\ Cardinality(db.nodes.rows) = Cardinality(orig.nodes.rows)
        /\ \A old \in orig.nodes.rows : Converted(old) \in db.nodes.rows

\* C6, amended: the migrated table holds exactly one row per distinct
\* public_key of the legacy table, each the conversion of a legacy row of
\* that key; when the legacy keys are pairwise distinct it holds the
\* conversion of every legacy row, so as many rows as the legacy table.
C6_MigrationKeepsOneRowPerKey ==
    Migrated =>
        /\ db.nodes.exists /\ db.nodes.fs_type = "INTEGER" /\ ~db.temp.exists
        /\ UniqueKeys(db.nodes.rows)
        /\ KeysOf(db.nodes.rows) = KeysOf(orig.nodes.rows)
        /\ \A row \in db.nodes.rows : \E old \in orig.nodes.rows : row = Converted(old)
        /\ UniqueKeys(orig.nodes.rows) =>
              /\ Cardinality(db.nodes.rows) = Cardinality(orig.nodes.rows)
              /\ \A old \in orig.nodes.rows : Converted(old) \in db.nodes.rows

\* A migrated table of two rows: one whose text carried an offset, now
\* 1700000000, and one whose text was no date, now 0.
C6_Witness ==
    /\ Migrated
    /\ \E a, b \in orig.nodes.rows :
          /\ a.first_seen = TsOffset /\ b.first_seen = TsNoDate
          /\ db.nodes.rows = {Node(a.public_key, a.alias, a.capacity, 1700000000),
                              Node(b.public_key, b.alias, b.capacity, 0)}
    /\ Cardinality(db.nodes.rows) = 2

MigSteps ==
    {"mig_begin", "mig_rename", "mig_create", "mig_select", "mig_copy", "mig_commit"}

\* C7: while run_migration has not committed, and after any of its steps
\* failed, the store on disk is the store the process found (the legacy
\* nodes table with all its rows, no temporary table); after such a failure
\* initialize_database has returned Err and never returns Ok.
C7_FailedMigrationLeavesLegacyTable ==
    /\ tx.active => db = orig
    /\ boot.failedAt \in MigSteps =>
          /\ db = orig
          /\ db.nodes.fs_type \in TextSpellings /\ ~db.temp.exists
          /\ ~tx.active
          /\ boot.result = "err"
          /\ mpc \in {"db_failed", "exited"}

\* The copy loop failed after it had copied a row of a two-row legacy
\* table, and the process has exited.
C7_Witness ==
    /\ boot.failedAt = "mig_copy"
    /\ boot.copied = 1
    /\ Cardinality(orig.nodes.rows) = 2
    /\ db = orig
    /\ mpc = "exited"

\* C11: a scan made while the worker's transaction is open, whatever that
\* transaction has written so far, lists the rows the store held when the
\* transaction began; and every sequence a request holds, has returned or
\* has cached lists a committed state of the store: the state before some
\* store_nodes call or the state after it committed.
C11_ScanSeesCommittedSnapshot ==
    /\ [][\A r \in Readers :
             (rd[r].pc = "scan" /\ rd'[r].pc = "insert") =>
                IsRankedListing(rd'[r].body,
                                IF wtx.active THEN wtx.before ELSE db.nodes.rows)]_vars
    /\ [](\A r \in Readers :
             (rd[r].pc = "insert" \/ rd[r].status = 200) =>
                /\ rd[r].ver \in 1..Len(hist)
                /\ IsRankedListing(rd[r].body, hist[rd[r].ver]))
    /\ [](cache.present =>
             /\ cache.ver \in 1..Len(hist)
             /\ IsRankedListing(cache.value, hist[cache.ver]))
    /\ [](wtx.active => hist[Len(hist)] = wtx.before)

\* A request scanned while the transaction held uncommitted changes; the
\* transaction has since committed; the request returned and cached the
\* rows of before the transaction.
C11_Witness ==
    /\ rd["r1"].midTx
    /\ rd["r1"].pc = "idle" /\ rd["r1"].status = 200
    /\ cache.value = rd["r1"].body
    /\ ~wtx.active /\ wtx.result = "ok"
    /\ wtx.rows # wtx.before
    /\ IsRankedListing(rd["r1"].body, wtx.before)
    /\ db.nodes.rows = wtx.rows

\* C12: the step in which a statement of store_nodes fails leaves the store
\* as it is on disk, which is the store of before the call, and counts one
\* failed attempt of kind store; the store stays so until the next call
\* begins.
C12_FailedReconcileLeavesStore ==
    /\ [][(wtx.active /\ wtx'.result = "err") =>
             /\ db' = db
             /\ db'.nodes.rows = wtx.before
             /\ attempts' = attempts + 1
             /\ "store" \in cyc'.kinds]_vars
    /\ [](wtx.result = "err" =>
             /\ ~wtx.active
             /\ db.nodes.rows = wtx.before
             /\ hist[Len(hist)] = wtx.before)

\* A call on a two-record batch failed in its second loop, after an insert
\* of the first loop had added a row: the store holds the rows of before.
C12_Witness ==
    /\ wtx.result = "err"
    /\ Len(wtx.nodes) = 2
    /\ wtx.k > Len(wtx.nodes)
    /\ Cardinality(wtx.rows) > Cardinality(wtx.before)
    /\ db.nodes.rows = wtx.before

\* The nodes table is there and its first_seen is neither the current
\* schema's INTEGER nor the legacy TEXT.
Malformed(tbl) ==
    tbl.exists /\ tbl.fs_type # "INTEGER" /\ tbl.fs_type \notin TextSpellings

\* C13: whenever initialize_database has returned Ok on a store that had no
\* nodes table (fresh table created), a nodes table of the current schema
\* (found) or a legacy nodes table (migrated), the store holds a nodes table
\* with integer first_seen and one row per public_key, no temporary table,
\* and the descending index on capacity.
C13_BootstrapLeavesIndexedTable ==
    (boot.result = "ok" /\ ~Malformed(orig.nodes)) =>
        /\ db.nodes.exists
        /\ db.nodes.fs_type = "INTEGER"
        /\ UniqueKeys(db.nodes.rows)
        /\ ~db.temp.exists
        /\ db.nodes.index

\* C14: on a store whose nodes table is malformed, initialize_database
\* never returns Ok and main never gets past it.
C14_MalformedSchemaIsFatal ==
    Malformed(orig.nodes) =>
        /\ boot.result # "ok"
        /\ mpc \notin {"db_ready", "bind", "serving"}

\* C15: a request is answered 500 only out of its one store scan, in the
\* step in which that scan fails: the step goes straight to the response
\* (no second scan), carries no listing, and leaves the cache and the store
\* as they are; unless a request that missed concurrently has put its own
\* scan in the cache, the next request misses again.
C15_ScanFailureAnswers500 ==
    /\ [][\A r \in Readers :
             (rd'[r] # rd[r] /\ rd'[r].status = 500) =>
                /\ rd[r].pc = "scan"
                /\ rd'[r].pc = "idle"
                /\ rd'[r].body = <<>>
                /\ cache' = cache
                /\ db' = db]_vars
    /\ [](\A r \in Readers :
             (rd[r].pc = "idle" /\ rd[r].status = 500 /\ mpc = "serving"
                 /\ EntryState(cache) # "live")
                => (ENABLED ReadMiss(r) /\ ~ENABLED ReadHit(r)))

\* A request was answered 500, the cache is still empty, and the next
\* request has missed again and is at its scan.
C15_Witness ==
    \E r, q \in Readers :
        /\ rd[r].pc = "idle" /\ rd[r].status = 500
        /\ ~cache.present
        /\ rd[q].pc = "scan" /\ rd[q].lookupState = "absent"

BatchKeys(nodes) == {nodes[i].public_key : i \in 1..Len(nodes)}

SameOutcome(a, b) ==
    /\ a.ok = b.ok
    /\ a.rows = b.rows
    /\ a.inserted_count = b.inserted_count
    /\ a.updated_count = b.updated_count

\* C16, as stated: for any store and any batch, the records in any other
\* order give the same store and the same (inserted_count, updated_count).
C16_AnyBatchOrderIrrelevant ==
    rc.phase = 3 => SameOutcome(rc.inOrder, rc.permuted)

\* C16, amended: so it is for every batch whose public keys are pairwise
\* distinct.
C16_DistinctKeysOrderIrrelevant ==
    (rc.phase = 3 /\ DistinctKeys(rc.nodes)) => SameOutcome(rc.inOrder, rc.permuted)

\* A batch of two distinct keys reconciled in its two orders, one record
\* inserted and one updated either way.
C16_Witness ==
    /\ rc.phase = 3
    /\ Len(rc.nodes) = 2 /\ DistinctKeys(rc.nodes)
    /\ rc.perm # rc.nodes
    /\ rc.inOrder.inserted_count = 1 /\ rc.inOrder.updated_count = 1
    /\ rc.inOrder.rows # rc.rows
    /\ SameOutcome(rc.inOrder, rc.permuted)

\* The public keys whose row some update statement of the call changed.
UpdatedKeys(rows, nodes) ==
    {nodes[i].public_key : i \in
        {j \in 1..Len(nodes) :
            UpdateChanged(RunStatements(rows, nodes, Len(nodes) + j - 1).rows,
                          nodes[j]).changed > 0}}

\* The rows of `before` whose alias or capacity is another in `after`.
ChangedRows(before, after) ==
    {r \in before : \E q \in after : /\ q.public_key = r.public_key
                                     /\ (q.alias # r.alias \/ q.capacity # r.capacity)}

\* C18, as stated: for any store and any batch, inserted_count is the
\* number of distinct public keys of the batch absent from the store, and
\* updated_count the number of rows the call changed in alias or capacity.
C18_CountsAreRowsInsertedAndChanged ==
    rc.phase = 3 =>
        /\ rc.inOrder.inserted_count = Cardinality(BatchKeys(rc.nodes) \ KeysOf(rc.rows))
        /\ rc.inOrder.updated_count = Cardinality(UpdatedKeys(rc.rows, rc.nodes))

\* C18, amended: inserted_count is that number for any batch, and the rows
\* added are one per such key; for a batch whose public keys are pairwise
\* distinct, updated_count is the number of stored rows whose alias or
\* capacity is another after the call, and every other stored row is
\* unchanged; in general updated_count is at most the number of records.
C18_CountsForDistinctKeys ==
    rc.phase = 3 =>
        /\ rc.inOrder.inserted_count = Cardinality(BatchKeys(rc.nodes) \ KeysOf(rc.rows))
        /\ KeysOf(rc.inOrder.rows) = KeysOf(rc.rows) \cup BatchKeys(rc.nodes)
        /\ UniqueKeys(rc.inOrder.rows)
        /\ rc.inOrder.updated_count <= Len(rc.nodes)
        /\ DistinctKeys(rc.nodes) =>
              /\ rc.inOrder.updated_count
                    = Cardinality(ChangedRows(rc.rows, rc.inOrder.rows))
              /\ rc.inOrder.updated_count = Cardinality(UpdatedKeys(rc.rows, rc.nodes))
              /\ rc.rows \ ChangedRows(rc.rows, rc.inOrder.rows) \subseteq rc.inOrder.rows

\* A batch of two distinct keys on a store that holds both: one record
\* differs from its row and is counted, the other equals its row and is
\* neither written nor counted.
C18_Witness ==
    /\ rc.phase = 3
    /\ Len(rc.nodes) = 2 /\ DistinctKeys(rc.nodes)
    /\ BatchKeys(rc.nodes) = KeysOf(rc.rows)
    /\ rc.inOrder.inserted_count = 0
    /\ rc.inOrder.updated_count = 1
    /\ Cardinality(rc.rows \cap rc.inOrder.rows) = 1

\* C17: no step changes the first_seen of a stored row, whatever the
\* batches carry; a call that commits leaves, for every record of its
\* batch, a row with the record's alias and capacity, whose first_seen is
\* the one stored before the call when the key was stored, and the
\* record's when the call created the row.
C17_FirstSeenNeverChanges ==
    /\ [][\A row \in db.nodes.rows :
             \E kept \in db'.nodes.rows : /\ kept.public_key = row.public_key
                                          /\ kept.first_seen = row.first_seen]_vars
    /\ [][(wtx.active /\ wtx'.result = "ok") =>
             \A i \in 1..Len(wtx.nodes) :
                \E row \in db'.nodes.rows :
                   /\ row.public_key = wtx.nodes[i].public_key
                   /\ row.alias = wtx.nodes[i].alias
                   /\ row.capacity = wtx.nodes[i].capacity
                   /\ IF row.public_key \in KeysOf(db.nodes.rows)
                      THEN \E old \in db.nodes.rows :
                              /\ old.public_key = row.public_key
                              /\ old.first_seen = row.first_seen
                      ELSE row.first_seen = wtx.nodes[i].first_seen]_vars

\* The row of pk2 was created with first_seen 0; a later batch carrying
\* pk2 with firstSeen 1700000000 has committed: the row has the batch's
\* alias and capacity and first_seen 0.
C17_Witness ==
    /\ wtx.result = "ok"
    /\ wtx.nodes = BatchB
    /\ BatchB[1].first_seen = 1700000000
    /\ Node("pk2", "b", 1, 0) \in wtx.before
    /\ Node("pk2", "a", 2, 0) \in db.nodes.rows
    /\ Len(hist) = 3

\* C19: a cycle starts only in a step in which interval.tick() returns,
\* and the starts of two consecutive cycles are at least one tick period
\* apart.
C19_CycleStartsOnePeriodApart ==
    /\ (cyc # NoCycle \/ wpc # "tick") => Len(clk.starts) >= 1
    /\ Len(clk.starts) = 2 => clk.starts[2] - clk.starts[1] >= TickPeriod

\* The slots that show a response returned before this step.
Returned == {q \in Readers : rd[q].pc = "idle" /\ rd[q].status = 200}

\* C20, as stated: no response carries the snapshot of an earlier store
\* state than a response returned before it, and no cache entry the
\* snapshot of an earlier store state than the entry it replaces.
C20_ReadsAreMonotonic ==
    /\ [][\A r \in Readers :
             Answered200(r) => \A q \in Returned : rd'[r].ver >= rd[q].ver]_vars
    /\ [][(cache.present /\ cache' # cache) => cache'.ver >= cache.ver]_vars

\* C20, amended: so it is of every response of a request that missed the
\* cache while no other request that missed was unanswered, and of every
\* hit on an entry such a request wrote: it carries the snapshot of no
\* earlier store state than any response returned before it or than the
\* entry it finds in the cache.
C20_MonotonicWithoutOverlap ==
    [][\A r \in Readers :
          (Answered200(r) /\ ~rd'[r].raced) =>
             /\ \A q \in Returned : rd'[r].ver >= rd[q].ver
             /\ cache.present => rd'[r].ver >= cache.ver
             /\ rd'[r].ver <= Len(hist)]_vars

\* A request that missed alone after the entry had expired returned the
\* second store state, while the other slot shows the first store state
\* returned before.
C20_Witness ==
    \E r, q \in Readers :
        /\ rd[r].pc = "idle" /\ rd[r].status = 200
        /\ rd[r].touched /\ ~rd[r].raced
        /\ rd[r].ver = 2
        /\ rd[q].pc = "idle" /\ rd[q].status = 200 /\ rd[q].ver = 1
        /\ cache.ver = 2 /\ ~cache.raced
====
